---- MODULE Spec2Model ----
(***************************************************************************)
(* Healthcare RAG chatbot (Sinha532/RAG-DEMO): the session of app.py, the  *)
(* relational store of database.py, PDFRAGSystem of pdf_rag.py and         *)
(* WebSearchSystem of web_search.py.                                       *)
(*                                                                         *)
(* Conventions.  A Python value that may be None is a set: {} is None and  *)
(* {x} is the value x.  A Python str is a sequence of string tokens, and   *)
(* concatenation (an f-string, +, join) is \o.  A call's outcome is a      *)
(* record [kind |-> "return", value |-> v] or [kind |-> "raise", exc |-> m]*)
(* where m is str(e).  Every handler is an operator from its inputs, the   *)
(* state it reads and the outcomes of the external calls it makes (the     *)
(* language model, the embeddings, the search provider) to its outcome,    *)
(* the state it leaves and the calls it made.                              *)
(***************************************************************************)
EXTENDS Integers, Sequences, FiniteSets, TLC

VARIABLES
    store,                \* patients.db: table name -> row count, Absent when the table does not exist
    db_initialized,       \* st.session_state.db_initialized
    db_schema_cache,      \* st.session_state.db_schema_cache (None or a schema text)
    pdf_rag_initialized,  \* st.session_state.pdf_rag_initialized
    pdf_rag_system,       \* st.session_state.pdf_rag_system (None or a PDFRAGSystem)
    web_search_system,    \* st.session_state.web_search_system (None or a WebSearchSystem)
    TAVILY_API_KEY,       \* os.getenv('TAVILY_API_KEY') is set
    disk,                 \* the vectorstore saved by save_vectorstore (None or an index)
    last,                 \* the operation that ran last: its inputs, the state before it, its calls and outcome
    history,              \* what has happened so far: the sources whose passages the PDF system's
                          \* vectorstore has held, and the paths process_pdf has completed on
    split_input,          \* split_documents: the documents and parameters given
    split_output,         \* split_documents: the passages returned (None before the call)
    threads               \* a process_pdf call and a query call running at once on one PDFRAGSystem:
                          \* the position and the local values of each

vars == <<store, db_initialized, db_schema_cache, pdf_rag_initialized, pdf_rag_system,
          web_search_system, TAVILY_API_KEY, disk, last, history, split_input, split_output, threads>>

(***************************************************************************)
(* Bounds of the model.                                                    *)
(***************************************************************************)
\* longest page text given to split_documents, in characters
MaxLen == 5
\* largest chunk_size given to split_documents
MaxChunk == 3

(***************************************************************************)
(* Python values.                                                          *)
(***************************************************************************)
None == {}

Some(x) == {x}

Get(o) == CHOOSE x \in o : TRUE

Return(v) == [kind |-> "return", value |-> v]

Raise(m) == [kind |-> "raise", exc |-> m]

Str(text) == [type |-> "str", text |-> text]

\* str(e) of the exceptions the external calls raise
ExcMsgs == {"timeout"}

\* what an external call does: it raises, or returns one of `values`
Outcomes(values) == {Raise(m) : m \in ExcMsgs} \cup {Return(v) : v \in values}

RECURSIVE Join(_, _)
\* sep.join(parts), each part a text
Join(sep, parts) ==
    IF parts = <<>> THEN <<>>
    ELSE IF Len(parts) = 1 THEN parts[1]
    ELSE parts[1] \o sep \o Join(sep, Tail(parts))

IsWhitespace(tok) == tok \in {" ", "\n"}

RECURSIVE LStrip(_)
LStrip(text) ==
    IF text # <<>> /\ IsWhitespace(text[1]) THEN LStrip(Tail(text)) ELSE text

RECURSIVE RStrip(_)
RStrip(text) ==
    IF text # <<>> /\ IsWhitespace(text[Len(text)])
    THEN RStrip(SubSeq(text, 1, Len(text) - 1)) ELSE text

\* str.strip()
Strip(text) == RStrip(LStrip(text))

(***************************************************************************)
(* database.py: the relational store.                                      *)
(***************************************************************************)
Tables == <<"patients", "medical_records", "appointments">>

TableNames == {Tables[i] : i \in DOMAIN Tables}

\* the row count of a table that does not exist
Absent == 0 - 1

\* len(patients_data), range(1, 21)
NumSeedPatients == 20

\* random.randint(2, 5) medical records and random.randint(1, 4) appointments for
\* each patient: the fewest and the most rows the draws can produce
SeedDraws ==
    { [records |-> 2 * NumSeedPatients, appointments |-> 1 * NumSeedPatients],
      [records |-> 5 * NumSeedPatients, appointments |-> 4 * NumSeedPatients] }

NoDatabase == [t \in TableNames |-> Absent]

\* the messages are the source's texts without their leading pictograms
MsgAlreadyExists == <<"Database already exists with data">>

MsgCreated == <<"Database created successfully with 20 patients and medical records!">>

\* CREATE TABLE IF NOT EXISTS, for the three tables
CreateTables(db) == [t \in TableNames |-> IF db[t] = Absent THEN 0 ELSE db[t]]

\* create_patient_database(), with the numbers of rows the random draws produce
create_patient_database(db, nrec, nappt) ==
    LET created == CreateTables(db) IN
    IF created["patients"] > 0
    THEN [result |-> Return(Str(MsgAlreadyExists)), store |-> created]
    ELSE [result |-> Return(Str(MsgCreated)),
          store  |-> [created EXCEPT !["patients"] = @ + NumSeedPatients,
                                     !["medical_records"] = @ + nrec,
                                     !["appointments"] = @ + nappt]]

\* the statements the model's translator can produce, as token texts
SelectAll(t) == <<"SELECT", t, "ALL">>

SelectNone(t) == <<"SELECT", t, "NONE">>

DropTable(t) == <<"DROP", t>>

IsSelect(sql) == Len(sql) = 3 /\ sql[1] = "SELECT" /\ sql[3] \in {"ALL", "NONE"}

IsDrop(sql) == Len(sql) = 2 /\ sql[1] = "DROP"

\* the exception types that reach query_database's handlers when the store rejects
\* a statement: sqlite3's own, or the wrapper that pandas.read_sql_query raises
RejectionTypes == {"sqlite3.OperationalError", "DatabaseError"}

\* query_database's two except clauses
QueryErrorText(exctype, msg) ==
    IF exctype = "sqlite3.OperationalError"
    THEN <<"Database query error: ">> \o msg
    ELSE <<"An error occurred: ">> \o msg

DataFrame(n) == [type |-> "DataFrame", rows |-> n]

\* query_database returning an empty DataFrame where the store rejects the statement
query_database_swallowing(db, sql, exctype) ==
    IF IsSelect(sql) /\ sql[2] \in TableNames /\ db[sql[2]] # Absent
    THEN [value |-> DataFrame(IF sql[3] = "ALL" THEN db[sql[2]] ELSE 0), store |-> db]
    ELSE [value |-> DataFrame(0), store |-> db]

\* query_database(sql_query): what it returns and the store it leaves.
\* A statement that yields no result set (DROP) is executed, and read_sql_query
\* then fails on the missing cursor description.
query_database(db, sql, exctype) ==
    IF IsSelect(sql) /\ sql[2] \in TableNames /\ db[sql[2]] # Absent
    THEN [value |-> DataFrame(IF sql[3] = "ALL" THEN db[sql[2]] ELSE 0), store |-> db]
    ELSE IF IsSelect(sql) \/ (IsDrop(sql) /\ (sql[2] \notin TableNames \/ db[sql[2]] = Absent))
    THEN [value |-> Str(QueryErrorText(exctype, <<"no such table: ", sql[2]>>)), store |-> db]
    ELSE IF IsDrop(sql)
    THEN [value |-> Str(QueryErrorText("TypeError", <<"'NoneType' object is not iterable">>)),
          store |-> [db EXCEPT ![sql[2]] = Absent]]
    ELSE IF sql = <<>>
    THEN [value |-> Str(QueryErrorText("TypeError", <<"'NoneType' object is not iterable">>)),
          store |-> db]
    ELSE [value |-> Str(QueryErrorText(exctype, <<"syntax error near ", sql[1]>>)), store |-> db]

\* get_database_schema(): PRAGMA table_info lists no column for a missing table
get_database_schema(db) ==
    Join(<<"\n">>, [i \in DOMAIN Tables |->
        <<"TABLE: ", Tables[i], "COLUMNS:">>
        \o (IF db[Tables[i]] = Absent THEN <<>> ELSE <<"columns of ", Tables[i]>>)])


(***************************************************************************)
(* app.py: the structured-query handler.                                   *)
(***************************************************************************)
\* a code-fence marker: a run of three backticks
Fence == "[3 backticks]"

RECURSIVE ReplaceSixBackticks(_)
\* query.replace(<six backticks>, ""): every run of six backticks, that is two adjacent
\* fence markers, is removed, scanning from the left
ReplaceSixBackticks(text) ==
    IF Len(text) < 2 THEN text
    ELSE IF text[1] = Fence /\ text[2] = Fence
    THEN ReplaceSixBackticks(SubSeq(text, 3, Len(text)))
    ELSE <<text[1]>> \o ReplaceSixBackticks(Tail(text))

\* the texts the language model returns to the SQL prompt
SqlModelTexts ==
    { SelectAll("patients"),
      SelectNone("patients"),
      SelectAll("visits"),
      DropTable("appointments"),
      <<"I", "cannot", "answer">>,
      <<" ">> \o SelectAll("appointments") \o <<"\n">>,
      <<Fence, "sql", "\n">> \o SelectAll("patients") \o <<"\n", Fence>>,
      <<Fence, Fence>> \o SelectAll("medical_records") }

\* the texts the language model returns to an answer prompt
AnswerModelTexts == {<<"model answer">>}

\* generate_sql_query(question, schema), given what chain.invoke does
generate_sql_query(llm) ==
    IF llm.kind = "raise" THEN llm
    ELSE Return(Strip(ReplaceSixBackticks(Strip(llm.value))))

\* generate_natural_response(question, results), given what chain.invoke does
generate_natural_response(results, llm) ==
    IF llm.kind = "raise" THEN llm ELSE Return(Str(llm.value))

MsgNoRecords == <<"No matching records found in the database.">>

\* the branch without the emptiness test: every DataFrame is given to the model
sql_answer_always_synthesizes(results, nl) ==
    IF results.type = "DataFrame"
    THEN [result |-> generate_natural_response(results, nl),
          calls |-> <<"generate_natural_response", "llm:response_prompt">>]
    ELSE [result |-> Return(Str(<<"Query execution error: ">> \o results.text)), calls |-> <<>>]

\* handle_sql_query's branch on what query_database returned: the answer, and the
\* calls made to give it
sql_answer(results, nl) ==
    IF results.type = "DataFrame" /\ results.rows > 0
    THEN [result |-> generate_natural_response(results, nl),
          calls |-> <<"generate_natural_response", "llm:response_prompt">>]
    ELSE IF results.type = "DataFrame" /\ results.rows = 0
    THEN [result |-> Return(Str(MsgNoRecords)), calls |-> <<>>]
    ELSE [result |-> Return(Str(<<"Query execution error: ">> \o results.text)), calls |-> <<>>]

\* the try block running the schema introspection on every request
handle_sql_query_try_recomputing(question, cache, db, o) ==
    LET cache1 == Some(get_database_schema(db))
        gen == generate_sql_query(o.sql)
        c2 == <<"get_database_schema", "generate_sql_query", "llm:sql_prompt">>
    IN
    IF gen.kind = "raise"
    THEN [result |-> gen, calls |-> c2, db_schema_cache |-> cache1, store |-> db,
          sql |-> None, executed |-> None]
    ELSE
    LET exec == query_database(db, gen.value, o.exctype)
        answer == sql_answer(exec.value, o.nl)
    IN [result |-> answer.result, calls |-> c2 \o <<"query_database">> \o answer.calls,
        db_schema_cache |-> cache1, store |-> exec.store,
        sql |-> Some(gen.value), executed |-> Some(exec.value)]

\* the try block translating and executing a second time when the store rejected
\* the first statement
handle_sql_query_try_retrying(question, cache, db, o) ==
    LET cache1 == IF cache = None THEN Some(get_database_schema(db)) ELSE cache
        gen == generate_sql_query(o.sql)
        c2 == (IF cache = None THEN <<"get_database_schema">> ELSE <<>>)
              \o <<"generate_sql_query", "llm:sql_prompt">>
    IN
    IF gen.kind = "raise"
    THEN [result |-> gen, calls |-> c2, db_schema_cache |-> cache1, store |-> db,
          sql |-> None, executed |-> None]
    ELSE
    LET first == query_database(db, gen.value, o.exctype)
        again == first.value.type = "str"
        exec == IF again THEN query_database(first.store, gen.value, o.exctype) ELSE first
        answer == sql_answer(exec.value, o.nl)
    IN [result |-> answer.result,
        calls |-> c2 \o <<"query_database">>
                  \o (IF again THEN <<"generate_sql_query", "llm:sql_prompt", "query_database">>
                      ELSE <<>>)
                  \o answer.calls,
        db_schema_cache |-> cache1, store |-> exec.store,
        sql |-> Some(gen.value), executed |-> Some(exec.value)]

\* the try block going on to the synthesis call when the translation raised
handle_sql_query_try_answers_anyway(question, cache, db, o) ==
    LET cache1 == IF cache = None THEN Some(get_database_schema(db)) ELSE cache
        gen == generate_sql_query(o.sql)
        c2 == (IF cache = None THEN <<"get_database_schema">> ELSE <<>>)
              \o <<"generate_sql_query", "llm:sql_prompt">>
    IN
    IF gen.kind = "raise"
    THEN [result |-> generate_natural_response(DataFrame(0), o.nl),
          calls |-> c2 \o <<"generate_natural_response", "llm:response_prompt">>,
          db_schema_cache |-> cache1, store |-> db, sql |-> None, executed |-> None]
    ELSE
    LET exec == query_database(db, gen.value, o.exctype)
        answer == sql_answer(exec.value, o.nl)
    IN [result |-> answer.result, calls |-> c2 \o <<"query_database">> \o answer.calls,
        db_schema_cache |-> cache1, store |-> exec.store,
        sql |-> Some(gen.value), executed |-> Some(exec.value)]

\* the body of handle_sql_query's try block.  o: the outcomes of the external calls
\* (o.schema: get_database_schema, o.sql and o.nl: the two model calls,
\* o.exctype: the exception type of a rejected statement).  sql is the query
\* generated and executed what query_database returned (None when not reached).
handle_sql_query_try(question, cache, db, o) ==
    LET needSchema == cache = None
        c1 == IF needSchema THEN <<"get_database_schema">> ELSE <<>>
    IN
    IF needSchema /\ o.schema.kind = "raise"
    THEN [result |-> o.schema, calls |-> c1, db_schema_cache |-> cache, store |-> db,
          sql |-> None, executed |-> None]
    ELSE
    LET cache1 == IF needSchema THEN Some(get_database_schema(db)) ELSE cache
        gen == generate_sql_query(o.sql)
        c2 == c1 \o <<"generate_sql_query", "llm:sql_prompt">>
    IN
    IF gen.kind = "raise"
    THEN [result |-> gen, calls |-> c2, db_schema_cache |-> cache1, store |-> db,
          sql |-> None, executed |-> None]
    ELSE
    LET exec == query_database(db, gen.value, o.exctype)
        answer == sql_answer(exec.value, o.nl)
    IN [result |-> answer.result, calls |-> c2 \o <<"query_database">> \o answer.calls,
        db_schema_cache |-> cache1, store |-> exec.store,
        sql |-> Some(gen.value), executed |-> Some(exec.value)]

\* try: ... except Exception as e: return f"<prefix>{str(e)}"
ExceptReturn(prefix, r) ==
    IF r.result.kind = "raise"
    THEN [r EXCEPT !.result = Return(Str(<<prefix, r.result.exc>>))]
    ELSE r

\* handle_sql_query without its try/except
handle_sql_query_unguarded(question, cache, db, o) ==
    handle_sql_query_try(question, cache, db, o)

\* handle_sql_query(question)
handle_sql_query(question, cache, db, o) ==
    ExceptReturn("Error processing SQL query: ", handle_sql_query_try(question, cache, db, o))


(***************************************************************************)
(* pdf_rag.py: split_documents.  A page text is a sequence of characters.  *)
(* RecursiveCharacterTextSplitter(chunk_size, chunk_overlap) is built with *)
(* its defaults: separators "\n\n", "\n", " ", "", the separator kept at   *)
(* the start of each split, len as the length function and whitespace      *)
(* stripped from each chunk.  A split or chunk of page text T is the window *)
(* [s |-> first, e |-> last] of T it holds.                                *)
(***************************************************************************)
Separators == << <<"\n", "\n">>, <<"\n">>, <<" ">>, <<>> >>

PieceLen(p) == p.e - p.s + 1

RECURSIVE MatchStarts(_, _, _, _)
\* where the non-overlapping matches of sep in T[i..hi] start, from the left
MatchStarts(T, sep, i, hi) ==
    IF i + Len(sep) - 1 > hi THEN <<>>
    ELSE IF SubSeq(T, i, i + Len(sep) - 1) = sep
    THEN <<i>> \o MatchStarts(T, sep, i + Len(sep), hi)
    ELSE MatchStarts(T, sep, i + 1, hi)

\* _split_text_with_regex(text, separator, keep_separator=True) on T[lo..hi]:
\* each split but the first starts with a separator; empty splits are dropped
SplitWithSeparator(T, lo, hi, sep) ==
    IF sep = <<>>
    THEN [j \in 1..(hi - lo + 1) |-> [s |-> lo + j - 1, e |-> lo + j - 1]]
    ELSE LET starts == <<lo>> \o MatchStarts(T, sep, lo, hi)
             pieces == [j \in 1..Len(starts) |->
                          [s |-> starts[j],
                           e |-> IF j < Len(starts) THEN starts[j + 1] - 1 ELSE hi]]
         IN SelectSeq(pieces, LAMBDA p : p.e >= p.s)

RECURSIVE StripRange(_, _, _)
\* text.strip() on the window T[s..e]
StripRange(T, s, e) ==
    IF s > e THEN [s |-> s, e |-> e]
    ELSE IF IsWhitespace(T[s]) THEN StripRange(T, s + 1, e)
    ELSE IF IsWhitespace(T[e]) THEN StripRange(T, s, e - 1)
    ELSE [s |-> s, e |-> e]

\* _join_docs(current_doc, ""): the joined splits, stripped; nothing when that is empty
JoinDocs(T, cur) ==
    IF cur = <<>> THEN <<>>
    ELSE LET r == StripRange(T, cur[1].s, cur[Len(cur)].e)
         IN IF r.e < r.s THEN <<>> ELSE <<r>>

RECURSIVE PopFront(_, _, _, _, _)
\* _merge_splits' inner while loop: drop splits from the front of current_doc
PopFront(cur, total, len, cs, co) ==
    IF total > co \/ (total + len > cs /\ total > 0)
    THEN PopFront(Tail(cur), total - PieceLen(cur[1]), len, cs, co)
    ELSE [cur |-> cur, total |-> total]

RECURSIVE MergeFrom(_, _, _, _, _, _, _, _)
\* _merge_splits(splits, ""), from split i on, with current_doc, total and docs so far
MergeFrom(T, pieces, i, cur, total, docs, cs, co) ==
    IF i > Len(pieces) THEN docs \o JoinDocs(T, cur)
    ELSE LET d == pieces[i]
             len == PieceLen(d)
         IN IF total + len > cs /\ cur # <<>>
            THEN LET p == PopFront(cur, total, len, cs, co)
                 IN MergeFrom(T, pieces, i + 1, Append(p.cur, d), p.total + len,
                              docs \o JoinDocs(T, cur), cs, co)
            ELSE MergeFrom(T, pieces, i + 1, Append(cur, d), total + len, docs, cs, co)

MergeSplits(T, pieces, cs, co) == MergeFrom(T, pieces, 1, <<>>, 0, <<>>, cs, co)

RECURSIVE FirstSeparator(_, _, _, _)
\* the first separator from index k on that is "" or occurs in T[lo..hi]
FirstSeparator(T, lo, hi, k) ==
    IF Separators[k] = <<>> \/ MatchStarts(T, Separators[k], lo, hi) # <<>>
    THEN k ELSE FirstSeparator(T, lo, hi, k + 1)

RECURSIVE SplitText(_, _, _, _, _, _)
RECURSIVE SplitLoop(_, _, _, _, _, _, _, _)
\* _split_text's loop over the splits, from split j on, with _good_splits and
\* final_chunks so far; k is the separator in use
SplitLoop(T, pieces, j, good, final, k, cs, co) ==
    IF j > Len(pieces)
    THEN final \o (IF good # <<>> THEN MergeSplits(T, good, cs, co) ELSE <<>>)
    ELSE LET p == pieces[j] IN
         IF PieceLen(p) < cs
         THEN SplitLoop(T, pieces, j + 1, Append(good, p), final, k, cs, co)
         ELSE LET flushed == final \o (IF good # <<>> THEN MergeSplits(T, good, cs, co) ELSE <<>>)
                  deeper == IF Separators[k] = <<>> THEN <<p>>
                            ELSE SplitText(T, p.s, p.e, k + 1, cs, co)
              IN SplitLoop(T, pieces, j + 1, <<>>, flushed \o deeper, k, cs, co)

\* _split_text(T[lo..hi], separators[k:])
SplitText(T, lo, hi, k, cs, co) ==
    LET ks == FirstSeparator(T, lo, hi, k)
    IN SplitLoop(T, SplitWithSeparator(T, lo, hi, Separators[ks]), 1, <<>>, <<>>, ks, cs, co)

\* RecursiveCharacterTextSplitter(chunk_size=cs, chunk_overlap=co).split_text(T)
split_text(T, cs, co) == SplitText(T, 1, Len(T), 1, cs, co)

\* the passages of one page: each keeps the page's metadata; span is the window of
\* the page text that the passage holds
PagePassages(doc, cs, co) ==
    LET chunks == split_text(doc.text, cs, co)
    IN [i \in DOMAIN chunks |->
          [source |-> doc.source, page |-> doc.page,
           text |-> SubSeq(doc.text, chunks[i].s, chunks[i].e), span |-> chunks[i]]]

RECURSIVE SplitPages(_, _, _)
SplitPages(documents, cs, co) ==
    IF documents = <<>> THEN <<>>
    ELSE PagePassages(documents[1], cs, co) \o SplitPages(Tail(documents), cs, co)

\* split_documents building the splitter without the arguments it was given
split_documents_defaults(documents, chunk_size, chunk_overlap) ==
    SplitPages(documents, 1000, 200)

\* PDFRAGSystem.split_documents(documents, chunk_size, chunk_overlap)
split_documents(documents, chunk_size, chunk_overlap) ==
    SplitPages(documents, chunk_size, chunk_overlap)


(***************************************************************************)
(* pdf_rag.py: PDFRAGSystem.  An instance is its two mutable fields,       *)
(* [vectorstore, retrieval_chain].  A FAISS index is the passages it was   *)
(* built from; a retrieval chain is the index its retriever searches and k.*)
(***************************************************************************)
\* process_pdf's default chunk_size
DefaultChunkSize == 1000

\* process_pdf's default chunk_overlap
DefaultChunkOverlap == 200

\* process_pdf's and setup_retrieval_chain's default k
DefaultK == 5

\* the PDF files of the model: the text of each page
PdfPages ==
    [ A |-> << <<"a", " ", "a">>, <<"a", "a">> >>,
      B |-> << <<"a", "\n", "a">> >>,
      blank |-> << <<" ">> >> ]

\* the paths process_pdf is given; "corrupt" is a file PyPDFLoader cannot read
PdfPaths == {"A", "B", "blank", "corrupt"}

NewPDFRAGSystem == [vectorstore |-> None, retrieval_chain |-> None]

MsgVectorstoreNotInit == "Vectorstore not initialized. Call create_vectorstore first."

MsgChainNotInit == "Retrieval chain not initialized. Call process_pdf first."

MsgSaveNotInit == "Vectorstore not initialized."

\* PDFRAGSystem.load_pdf(pdf_path): one Document for each page
load_pdf(pdf_path) ==
    IF pdf_path \in DOMAIN PdfPages
    THEN Return([i \in DOMAIN PdfPages[pdf_path] |->
                   [source |-> pdf_path, page |-> i - 1, text |-> PdfPages[pdf_path][i]]])
    ELSE Raise("cannot read the PDF file")

Index(documents) == [passages |-> documents]

\* create_vectorstore refilling the index object already held instead of building a
\* new one: the retrieval chain built on that object sees the index being rebuilt
create_vectorstore_in_place(sys, documents, embed) ==
    IF embed.kind = "raise" THEN [result |-> embed, sys |-> sys]
    ELSE IF documents = <<>> THEN [result |-> Raise("list index out of range"), sys |-> sys]
    ELSE LET held == IF sys.vectorstore = None THEN <<>> ELSE Get(sys.vectorstore).passages
             mixed == Index(held \o documents)
         IN [result |-> Return(mixed),
             sys |-> [vectorstore |-> Some(mixed),
                      retrieval_chain |->
                          IF sys.retrieval_chain = None THEN None
                          ELSE Some([Get(sys.retrieval_chain) EXCEPT !.retriever = mixed])]]

\* create_vectorstore adding the documents to the index already held
create_vectorstore_appending(sys, documents, embed) ==
    IF embed.kind = "raise" THEN [result |-> embed, sys |-> sys]
    ELSE IF documents = <<>> THEN [result |-> Raise("list index out of range"), sys |-> sys]
    ELSE LET held == IF sys.vectorstore = None THEN <<>> ELSE Get(sys.vectorstore).passages
         IN [result |-> Return(Index(held \o documents)),
             sys |-> [sys EXCEPT !.vectorstore = Some(Index(held \o documents))]]

\* PDFRAGSystem.create_vectorstore(documents), given what the embedding call does.
\* FAISS.from_documents raises on an empty list; self.vectorstore is assigned
\* only when it returns.
create_vectorstore(sys, documents, embed) ==
    IF embed.kind = "raise" THEN [result |-> embed, sys |-> sys]
    ELSE IF documents = <<>> THEN [result |-> Raise("list index out of range"), sys |-> sys]
    ELSE [result |-> Return(Index(documents)),
          sys |-> [sys EXCEPT !.vectorstore = Some(Index(documents))]]

\* PDFRAGSystem.setup_retrieval_chain(k)
setup_retrieval_chain(sys, k) ==
    IF sys.vectorstore = None
    THEN [result |-> Raise(MsgVectorstoreNotInit), sys |-> sys]
    ELSE [result |-> Return(None),
          sys |-> [sys EXCEPT !.retrieval_chain =
                      Some([retriever |-> Get(sys.vectorstore), k |-> k])]]

\* process_pdf dropping the index and the chain it holds before it starts
process_pdf_resetting(sys, pdf_path, chunk_size, chunk_overlap, k, embed) ==
    LET cleared == [sys EXCEPT !.vectorstore = None, !.retrieval_chain = None]
        documents == load_pdf(pdf_path)
    IN
    IF documents.kind = "raise" THEN [result |-> documents, sys |-> cleared]
    ELSE
    LET splits == split_documents(documents.value, chunk_size, chunk_overlap)
        created == create_vectorstore(cleared, splits, embed)
    IN
    IF created.result.kind = "raise" THEN created
    ELSE setup_retrieval_chain(created.sys, k)

\* PDFRAGSystem.process_pdf(pdf_path, chunk_size, chunk_overlap, k)
process_pdf(sys, pdf_path, chunk_size, chunk_overlap, k, embed) ==
    LET documents == load_pdf(pdf_path) IN
    IF documents.kind = "raise" THEN [result |-> documents, sys |-> sys]
    ELSE
    LET splits == split_documents(documents.value, chunk_size, chunk_overlap)
        created == create_vectorstore(sys, splits, embed)
    IN
    IF created.result.kind = "raise" THEN created
    ELSE setup_retrieval_chain(created.sys, k)

Min(a, b) == IF a < b THEN a ELSE b

\* the k passages the retriever returns; the ranking is the embedding provider's,
\* here the order of the index
Retrieve(chain) ==
    SubSeq(chain.retriever.passages, 1, Min(chain.k, Len(chain.retriever.passages)))

\* PDFRAGSystem.query(question), given what retrieval_chain.invoke does
\* (chain: it raises, or returns the model's answer text)
query(sys, question, chain) ==
    IF sys.retrieval_chain = None
    THEN [result |-> Raise(MsgChainNotInit), sys |-> sys, retrieved |-> None]
    ELSE IF chain.kind = "raise"
    THEN [result |-> chain, sys |-> sys, retrieved |-> Some(Get(sys.retrieval_chain).retriever)]
    ELSE [result |-> Return([type |-> "dict", input |-> question,
                             context |-> Retrieve(Get(sys.retrieval_chain)),
                             answer |-> Str(chain.value)]),
          sys |-> sys, retrieved |-> Some(Get(sys.retrieval_chain).retriever)]

\* save_vectorstore without its check: None has no save_local
save_vectorstore_unchecked(sys, saved) ==
    IF sys.vectorstore = None
    THEN [result |-> Raise("'NoneType' object has no attribute 'save_local'"),
          sys |-> sys, disk |-> saved]
    ELSE [result |-> Return(None), sys |-> sys, disk |-> sys.vectorstore]

\* PDFRAGSystem.save_vectorstore(path): what it returns and the saved index
save_vectorstore(sys, saved) ==
    IF sys.vectorstore = None
    THEN [result |-> Raise(MsgSaveNotInit), sys |-> sys, disk |-> saved]
    ELSE [result |-> Return(None), sys |-> sys, disk |-> sys.vectorstore]

\* PDFRAGSystem.load_vectorstore(path): FAISS.load_local raises when nothing is saved
load_vectorstore(sys, saved) ==
    IF saved = None
    THEN [result |-> Raise("no such file"), sys |-> sys]
    ELSE [result |-> Return(None), sys |-> [sys EXCEPT !.vectorstore = saved]]


(***************************************************************************)
(* web_search.py: WebSearchSystem.  An instance is [search_provider,       *)
(* tavily_api_key (whether a key was given), search_tool].  A request to   *)
(* the search tool is [form, query, include_domains]; the tool raises,     *)
(* returns a list of result dicts or returns a text.                       *)
(***************************************************************************)
\* search's default max_results
DefaultMaxResults == 5

DefaultDomains ==
    <<"pubmed.ncbi.nlm.nih.gov", "mayoclinic.org", "who.int", "cdc.gov", "nih.gov",
      "webmd.com", "medicalnewstoday.com">>

\* WebSearchSystem.__init__: the search tool built for a provider name and key
WebSearchSystem(search_provider, tavily_api_key) ==
    [search_provider |-> search_provider,
     tavily_api_key  |-> tavily_api_key,
     search_tool     |-> IF search_provider = "tavily" /\ tavily_api_key
                         THEN "TavilySearchResults" ELSE "DuckDuckGoSearchRun"]

\* create_web_search_system(groq_api_key, tavily_api_key, search_provider, model)
create_web_search_system(tavily_api_key, search_provider) ==
    WebSearchSystem(search_provider, tavily_api_key)

\* result dicts of the structured provider: a key may be missing
Result1 == [title |-> Some("T1"), url |-> Some("http://u1"), content |-> Some("c1")]

Result2 == [title |-> None, url |-> Some("http://u2"), content |-> None]

List(items) == [type |-> "list", items |-> items]

\* what search_tool.invoke returns
ToolValues ==
    { List(<<>>), List(<<Result1>>), List(<<Result1, Result2>>),
      Str(<<>>), Str(<<"text of the results">>) }

\* result.get(key, default)
DictGet(opt, default) == IF opt = None THEN default ELSE Get(opt)

RECURSIVE FormatFrom(_, _)
\* the formatting loop of search and medical_search, from result idx on
FormatFrom(items, idx) ==
    IF idx > Len(items) THEN <<>>
    ELSE <<"\n", ToString(idx), ". ", DictGet(items[idx].title, "No title"), "\n",
           "   URL: ", DictGet(items[idx].url, "No URL"), "\n",
           "   Content: ", DictGet(items[idx].content, "No content"), "\n">>
         \o FormatFrom(items, idx + 1)

\* the loop over results[:limit] (limit = 0: no slice); on a text it iterates the
\* characters, and the first result.get raises AttributeError
FormatResults(results, limit) ==
    IF results.type = "list"
    THEN Return(Str(FormatFrom(
             IF limit = 0 THEN results.items
             ELSE SubSeq(results.items, 1, Min(limit, Len(results.items))), 1)))
    ELSE IF results.text = <<>> THEN Return(Str(<<>>))
    ELSE Raise("'str' object has no attribute 'get'")

\* the body of search's try block
search_try(ws, qtext, max_results, tool) ==
    IF ws.search_provider = "tavily"
    THEN [result |-> IF tool.kind = "raise" THEN tool ELSE FormatResults(tool.value, max_results),
          sent   |-> <<[form |-> "dict", query |-> qtext, include_domains |-> None]>>]
    ELSE [result |-> tool,
          sent   |-> <<[form |-> "str", query |-> qtext, include_domains |-> None]>>]

\* search without its try/except
search_unguarded(ws, qtext, max_results, tool) ==
    search_try(ws, qtext, max_results, tool)

\* WebSearchSystem.search(query, max_results)
search(ws, qtext, max_results, tool) ==
    ExceptReturn("Search error: ", search_try(ws, qtext, max_results, tool))

\* the try block of medical_search's Tavily branch
medical_search_try(ws, qtext, domains, tool) ==
    [result |-> IF tool.kind = "raise" THEN tool ELSE FormatResults(tool.value, 0),
     sent   |-> <<[form |-> "dict", query |-> qtext, include_domains |-> Some(domains)]>>]

\* f"{query} " + " OR ".join([f"site:{domain}" for domain in domains])
ModifiedQuery(qtext, domains) ==
    qtext \o <<" ">> \o Join(<<" OR ">>, [i \in DOMAIN domains |-> <<"site:", domains[i]>>])

\* medical_search choosing its branch by the provider name alone
medical_search_by_name(ws, qtext, domains, tool) ==
    LET doms == IF domains = None THEN DefaultDomains ELSE Get(domains) IN
    IF ws.search_provider = "tavily"
    THEN ExceptReturn("Medical search error: ", medical_search_try(ws, qtext, doms, tool))
    ELSE search(ws, ModifiedQuery(qtext, doms), DefaultMaxResults, tool)

\* WebSearchSystem.medical_search(query, domains); domains is None or a list
medical_search(ws, qtext, domains, tool) ==
    LET doms == IF domains = None THEN DefaultDomains ELSE Get(domains) IN
    IF ws.search_provider = "tavily" /\ ws.tavily_api_key
    THEN ExceptReturn("Medical search error: ", medical_search_try(ws, qtext, doms, tool))
    ELSE search(ws, ModifiedQuery(qtext, doms), DefaultMaxResults, tool)

\* what search_tool.invoke does: the structured tool returns a list of results, or
\* a text when it reports its own failure; the plain-text tool returns a text
ToolOutcomes(ws) ==
    IF ws.search_tool = "TavilySearchResults"
    THEN Outcomes(ToolValues)
    ELSE Outcomes({v \in ToolValues : v.type = "str"})

ErrorAnswer(ws, msg) ==
    [type |-> "dict", answer |-> Str(<<"Error generating answer: ", msg>>),
     search_results |-> Str(<<>>), provider |-> ws.search_provider, model |-> "error"]

\* WebSearchSystem.search_and_answer(question), given what the model call does
search_and_answer(ws, qtext, tool, llm) ==
    LET found == search(ws, qtext, DefaultMaxResults, tool)
        c1 == <<"WebSearchSystem.search", "search_tool.invoke">>
    IN
    IF found.result.kind = "raise"
    THEN [result |-> Return(ErrorAnswer(ws, found.result.exc)), sent |-> found.sent, calls |-> c1]
    ELSE IF llm.kind = "raise"
    THEN [result |-> Return(ErrorAnswer(ws, llm.exc)), sent |-> found.sent,
          calls |-> c1 \o <<"llm:web.response_prompt">>]
    ELSE [result |-> Return([type |-> "dict",
                             answer |-> Str(llm.value),
                             search_results |-> found.result.value,
                             provider |-> ws.search_provider,
                             model |-> "llama-3.3-70b-versatile"]),
          sent |-> found.sent, calls |-> c1 \o <<"llm:web.response_prompt">>]

(***************************************************************************)
(* app.py: the document and web handlers, the sidebar buttons and the chat *)
(* input.                                                                  *)
(***************************************************************************)
MsgNoPdf == <<"Please upload and process a PDF document first.">>

\* the body of handle_pdf_query's try block
handle_pdf_query_try(question, initialized, system, chain) ==
    IF ~initialized
    THEN [result |-> Return(Str(MsgNoPdf)), calls |-> <<>>, retrieved |-> None]
    ELSE IF system = None
    THEN [result |-> Raise("'NoneType' object has no attribute 'query'"),
          calls |-> <<>>, retrieved |-> None]
    ELSE LET response == query(Get(system), question, chain) IN
         [result |-> IF response.result.kind = "raise" THEN response.result
                     ELSE Return(response.result.value.answer),
          calls |-> <<"PDFRAGSystem.query">>, retrieved |-> response.retrieved]

\* handle_pdf_query(question)
handle_pdf_query(question, initialized, system, chain) ==
    ExceptReturn("Error processing PDF query: ",
                 handle_pdf_query_try(question, initialized, system, chain))

\* initialize_web_search()
initialize_web_search(key) ==
    create_web_search_system(key, IF key THEN "tavily" ELSE "duckduckgo")

\* the body of handle_web_search's try block
handle_web_search_try(question, medical_only, system, key, tool, llm) ==
    LET ws == IF system = None THEN initialize_web_search(key) ELSE Get(system) IN
    IF medical_only
    THEN LET found == medical_search(ws, question, None, tool)
             c1 == <<"WebSearchSystem.medical_search", "search_tool.invoke">>
         IN IF found.result.kind = "raise"
            THEN [result |-> found.result, calls |-> c1, sent |-> found.sent,
                  web_search_system |-> Some(ws)]
            ELSE [result |-> IF llm.kind = "raise" THEN llm ELSE Return(Str(llm.value)),
                  calls |-> c1 \o <<"llm:response_prompt">>, sent |-> found.sent,
                  web_search_system |-> Some(ws)]
    ELSE LET answered == search_and_answer(ws, question, tool, llm) IN
         [result |-> Return(answered.result.value.answer),
          calls |-> <<"WebSearchSystem.search_and_answer">> \o answered.calls,
          sent |-> answered.sent, web_search_system |-> Some(ws)]

\* handle_web_search(question, medical_only)
handle_web_search(question, medical_only, system, key, tool, llm) ==
    ExceptReturn("Error processing web search: ",
                 handle_web_search_try(question, medical_only, system, key, tool, llm))

\* the Process PDF button with pdf_rag_initialized set before process_pdf is called
process_pdf_button_flag_first(system, initialized, upload, embed) ==
    LET sys0 == IF system = None THEN NewPDFRAGSystem ELSE Get(system)
        done == process_pdf(sys0, upload, DefaultChunkSize, DefaultChunkOverlap, DefaultK, embed)
    IN [result |-> IF done.result.kind = "raise"
                   THEN Return(Str(<<"Error processing PDF: ", done.result.exc>>))
                   ELSE Return(Str(<<"PDF processed successfully!">>)),
        pdf_rag_system |-> Some(done.sys), pdf_rag_initialized |-> TRUE]

\* the Process PDF button: what it shows, the session's PDF system and flag after it
process_pdf_button(system, initialized, upload, embed) ==
    LET sys0 == IF system = None THEN NewPDFRAGSystem ELSE Get(system)
        done == process_pdf(sys0, upload, DefaultChunkSize, DefaultChunkOverlap, DefaultK, embed)
    IN IF done.result.kind = "raise"
       THEN [result |-> Return(Str(<<"Error processing PDF: ", done.result.exc>>)),
             pdf_rag_system |-> Some(done.sys), pdf_rag_initialized |-> initialized]
       ELSE [result |-> Return(Str(<<"PDF processed successfully!">>)),
             pdf_rag_system |-> Some(done.sys), pdf_rag_initialized |-> TRUE]

\* the schema display of a script run: the cache is filled when it is empty
schema_display(cache, db) ==
    IF cache = None THEN Some(get_database_schema(db)) ELSE cache

QueryModes == {"SQL Database", "PDF Documents", "Web Search", "Medical Web Search"}

\* the if/elif chain with the document mode falling through to the web handler
dispatch_falls_through(query_mode) ==
    IF query_mode = "SQL Database" THEN "handle_sql_query"
    ELSE IF query_mode = "Web Search" THEN "handle_web_search(medical_only=False)"
    ELSE "handle_web_search(medical_only=True)"

\* the chat input's if/elif chain: the handler called for a mode
dispatch(query_mode) ==
    IF query_mode = "SQL Database" THEN "handle_sql_query"
    ELSE IF query_mode = "PDF Documents" THEN "handle_pdf_query"
    ELSE IF query_mode = "Web Search" THEN "handle_web_search(medical_only=False)"
    ELSE "handle_web_search(medical_only=True)"


(***************************************************************************)
(* The session of app.py: the sidebar buttons and the chat input, each a   *)
(* whole script run.                                                       *)
(***************************************************************************)
Questions == {<<"how many patients?">>}

NoHistory == [indexed |-> {}, processed |-> {}]

\* the sources of an index's passages
Sources(index) == {index.passages[i].source : i \in DOMAIN index.passages}

\* history after an operation that left the PDF system as sys: ok tells whether
\* the operation put an index in sys.vectorstore
Indexed(h, sys, ok) ==
    IF ok THEN [h EXCEPT !.indexed = @ \cup Sources(Get(sys.vectorstore))] ELSE h

Idle == [op |-> "none"]

\* no call is running
NoThreads == [processor |-> [pc |-> "idle"], reader |-> [pc |-> "idle"]]

NoSplit == [documents |-> <<>>, chunk_size |-> 1, chunk_overlap |-> 0]

\* patients.db as a session finds it: not created yet, or seeded by an earlier run
InitialStores ==
    {NoDatabase} \cup
    {create_patient_database(NoDatabase, d.records, d.appointments).store : d \in SeedDraws}

Init ==
    /\ store \in InitialStores
    /\ db_initialized = FALSE
    /\ db_schema_cache = None
    /\ pdf_rag_initialized = FALSE
    /\ pdf_rag_system = None
    /\ web_search_system = None
    /\ TAVILY_API_KEY \in BOOLEAN
    /\ disk = None
    /\ last = Idle
    /\ history = NoHistory
    /\ split_input = NoSplit
    /\ split_output = None
    /\ threads = NoThreads

\* the Initialize/Reset Database button
InitDatabaseButton ==
    \E draw \in SeedDraws :
        LET r == create_patient_database(store, draw.records, draw.appointments) IN
        /\ store' = r.store
        /\ db_initialized' = TRUE
        /\ db_schema_cache' = Some(get_database_schema(r.store))
        /\ last' = [op |-> "init_database", result |-> r.result,
                    pre |-> [store |-> store, db_schema_cache |-> db_schema_cache]]
        /\ UNCHANGED <<pdf_rag_initialized, pdf_rag_system, web_search_system, TAVILY_API_KEY,
                       disk, history, split_input, split_output, threads>>

\* the Process PDF button, on an uploaded file
ProcessPdfButton ==
    \E upload \in PdfPaths, embed \in Outcomes({None}) :
        LET r == process_pdf_button(pdf_rag_system, pdf_rag_initialized, upload, embed)
            ok == r.result.value.text = <<"PDF processed successfully!">>
        IN
        /\ pdf_rag_system' = r.pdf_rag_system
        /\ pdf_rag_initialized' = r.pdf_rag_initialized
        /\ history' = [Indexed(history, Get(r.pdf_rag_system), ok)
                          EXCEPT !.processed = IF ok THEN @ \cup {upload} ELSE @]
        /\ last' = [op |-> "process_pdf_button", upload |-> upload, ok |-> ok, result |-> r.result,
                    pre |-> [pdf_rag_initialized |-> pdf_rag_initialized,
                             pdf_rag_system |-> pdf_rag_system]]
        /\ UNCHANGED <<store, db_initialized, db_schema_cache, web_search_system, TAVILY_API_KEY,
                       disk, split_input, split_output, threads>>

\* the Show Database Schema button, offered once the database is initialized, in a
\* run that turns the display on.  (In every other run the display block leaves the
\* cache as it is: show_schema is set only after db_initialized, which is set
\* together with the cache.)
ShowSchemaButton ==
    /\ db_initialized
    /\ db_schema_cache' = schema_display(db_schema_cache, store)
    /\ last' = [op |-> "show_schema", pre |-> [db_schema_cache |-> db_schema_cache]]
    /\ UNCHANGED <<store, db_initialized, pdf_rag_initialized, pdf_rag_system, web_search_system,
                   TAVILY_API_KEY, disk, history, split_input, split_output, threads>>

\* the session state a request starts from, as the claims read it
Pre ==
    [store |-> store, db_schema_cache |-> db_schema_cache,
     pdf_rag_initialized |-> pdf_rag_initialized, processed |-> history.processed]

\* the outcomes of the external calls of one structured request: the schema call
\* fails (it is made only with an empty cache), the translation fails, or the model
\* returns a text; then a rejected statement raises one of the two exception types,
\* and the synthesis call fails or returns a text
SqlOutcomes(cache) ==
    LET ok == Return(<<>>)
        anyText == CHOOSE t \in AnswerModelTexts : TRUE
    IN
    {[schema |-> f, sql |-> ok, nl |-> ok, exctype |-> "DatabaseError"] :
        f \in IF cache = None THEN {Raise(m) : m \in ExcMsgs} ELSE {}}
    \cup {[schema |-> ok, sql |-> Raise(m), nl |-> ok, exctype |-> "DatabaseError"] : m \in ExcMsgs}
    \cup {[schema |-> ok, sql |-> Return(t), nl |-> n, exctype |-> "DatabaseError"] :
            t \in SqlModelTexts, n \in Outcomes(AnswerModelTexts)}
    \cup {[schema |-> ok, sql |-> Return(t), nl |-> Return(anyText),
           exctype |-> "sqlite3.OperationalError"] : t \in SqlModelTexts}

\* the chat input, when the mode's handler is handle_sql_query
ChatSql(query_mode) ==
    /\ dispatch(query_mode) = "handle_sql_query"
    /\ \E question \in Questions, o \in SqlOutcomes(db_schema_cache) :
        LET r == handle_sql_query(question, db_schema_cache, store, o) IN
        /\ store' = r.store
        /\ db_schema_cache' = r.db_schema_cache
        /\ last' = [op |-> "chat", mode |-> query_mode, handler |-> "handle_sql_query",
                    pre |-> Pre, calls |-> r.calls, result |-> r.result,
                    sql |-> r.sql, executed |-> r.executed]
        /\ UNCHANGED <<db_initialized, pdf_rag_initialized, pdf_rag_system, web_search_system,
                       TAVILY_API_KEY, disk, history, split_input, split_output, threads>>

\* the chat input, when the mode's handler is handle_pdf_query
ChatPdf(query_mode) ==
    /\ dispatch(query_mode) = "handle_pdf_query"
    /\ \E question \in Questions, chain \in Outcomes(AnswerModelTexts) :
        LET r == handle_pdf_query(question, pdf_rag_initialized, pdf_rag_system, chain) IN
        /\ last' = [op |-> "chat", mode |-> query_mode, handler |-> "handle_pdf_query",
                    pre |-> Pre, calls |-> r.calls, result |-> r.result,
                    retrieved |-> r.retrieved]
        /\ UNCHANGED <<store, db_initialized, db_schema_cache, pdf_rag_initialized, pdf_rag_system,
                       web_search_system, TAVILY_API_KEY, disk, history, split_input, split_output, threads>>

\* the chat input, when the mode's handler is handle_web_search
ChatWeb(query_mode) ==
    /\ dispatch(query_mode) \in {"handle_web_search(medical_only=False)",
                                 "handle_web_search(medical_only=True)"}
    /\ \E question \in Questions, llm \in Outcomes(AnswerModelTexts) :
        LET medical_only == dispatch(query_mode) = "handle_web_search(medical_only=True)"
            ws == IF web_search_system = None THEN initialize_web_search(TAVILY_API_KEY)
                  ELSE Get(web_search_system)
        IN
        \E tool \in ToolOutcomes(ws) :
            LET r == handle_web_search(question, medical_only, web_search_system,
                                       TAVILY_API_KEY, tool, llm)
            IN
            /\ web_search_system' = r.web_search_system
            /\ last' = [op |-> "chat", mode |-> query_mode, handler |-> dispatch(query_mode),
                        pre |-> Pre, calls |-> r.calls, result |-> r.result,
                        tool |-> tool, sent |-> r.sent]
            /\ UNCHANGED <<store, db_initialized, db_schema_cache, pdf_rag_initialized,
                           pdf_rag_system, TAVILY_API_KEY, disk, history, split_input,
                           split_output, threads>>

\* the chat input: one handler runs, the one the selected mode dispatches to
ChatInput == \E query_mode \in QueryModes :
    ChatSql(query_mode) \/ ChatPdf(query_mode) \/ ChatWeb(query_mode)

Next == InitDatabaseButton \/ ShowSchemaButton \/ ProcessPdfButton \/ ChatInput

Spec == Init /\ [][Next]_vars


(***************************************************************************)
(* A PDFRAGSystem used directly, method by method (RagSpec).               *)
(***************************************************************************)
\* an index saved by an earlier process
OldIndex ==
    Index(<<[source |-> "old", page |-> 0, text |-> <<"a">>, span |-> [s |-> 1, e |-> 1]]>>)

RagInit ==
    /\ store = NoDatabase
    /\ db_initialized = FALSE
    /\ db_schema_cache = None
    /\ pdf_rag_initialized = FALSE
    /\ pdf_rag_system = Some(NewPDFRAGSystem)
    /\ web_search_system = None
    /\ TAVILY_API_KEY = FALSE
    /\ disk \in {None, Some(OldIndex)}
    /\ last = Idle
    /\ history = NoHistory
    /\ split_input = NoSplit
    /\ split_output = None
    /\ threads = NoThreads

RagPre == [system |-> Get(pdf_rag_system), disk |-> disk, history |-> history]

RagFrame ==
    UNCHANGED <<store, db_initialized, db_schema_cache, pdf_rag_initialized, web_search_system,
                TAVILY_API_KEY, split_input, split_output, threads>>

\* create_vectorstore on the passages of a file (the blank file has none)
RagCreateVectorstore ==
    \E path \in DOMAIN PdfPages, embed \in Outcomes({None}) :
        LET documents == split_documents(load_pdf(path).value, DefaultChunkSize,
                                         DefaultChunkOverlap)
            r == create_vectorstore(Get(pdf_rag_system), documents, embed)
            ok == r.result.kind = "return"
        IN
        /\ pdf_rag_system' = Some(r.sys)
        /\ history' = Indexed(history, r.sys, ok)
        /\ last' = [op |-> "create_vectorstore", ok |-> ok, pre |-> RagPre]
        /\ UNCHANGED disk
        /\ RagFrame

RagSetupRetrievalChain ==
    \E k \in {DefaultK} :
        LET r == setup_retrieval_chain(Get(pdf_rag_system), k) IN
        /\ pdf_rag_system' = Some(r.sys)
        /\ last' = [op |-> "setup_retrieval_chain", ok |-> r.result.kind = "return",
                    result |-> r.result, pre |-> RagPre]
        /\ UNCHANGED <<disk, history>>
        /\ RagFrame

RagProcessPdf ==
    \E path \in PdfPaths, embed \in Outcomes({None}) :
        LET r == process_pdf(Get(pdf_rag_system), path, DefaultChunkSize, DefaultChunkOverlap,
                             DefaultK, embed)
            ok == r.result.kind = "return"
        IN
        /\ pdf_rag_system' = Some(r.sys)
        /\ history' = [Indexed(history, r.sys, ok)
                          EXCEPT !.processed = IF ok THEN @ \cup {path} ELSE @]
        /\ last' = [op |-> "process_pdf", path |-> path, ok |-> ok, pre |-> RagPre]
        /\ UNCHANGED disk
        /\ RagFrame

RagQuery ==
    \E question \in Questions, chain \in Outcomes(AnswerModelTexts) :
        LET r == query(Get(pdf_rag_system), question, chain) IN
        /\ pdf_rag_system' = Some(r.sys)
        /\ last' = [op |-> "query", ok |-> r.result.kind = "return", result |-> r.result,
                    retrieved |-> r.retrieved, pre |-> RagPre]
        /\ UNCHANGED <<disk, history>>
        /\ RagFrame

RagSaveVectorstore ==
    LET r == save_vectorstore(Get(pdf_rag_system), disk) IN
    /\ pdf_rag_system' = Some(r.sys)
    /\ disk' = r.disk
    /\ last' = [op |-> "save_vectorstore", ok |-> r.result.kind = "return",
                result |-> r.result, pre |-> RagPre]
    /\ UNCHANGED history
    /\ RagFrame

RagLoadVectorstore ==
    LET r == load_vectorstore(Get(pdf_rag_system), disk)
        ok == r.result.kind = "return"
    IN
    /\ pdf_rag_system' = Some(r.sys)
    /\ history' = Indexed(history, r.sys, ok)
    /\ last' = [op |-> "load_vectorstore", ok |-> ok, pre |-> RagPre]
    /\ UNCHANGED disk
    /\ RagFrame

RagNext ==
    \/ RagCreateVectorstore
    \/ RagSetupRetrievalChain
    \/ RagProcessPdf
    \/ RagQuery
    \/ RagSaveVectorstore
    \/ RagLoadVectorstore

RagSpec == RagInit /\ [][RagNext]_vars


(***************************************************************************)
(* A process_pdf call and a query call running at once on one PDFRAGSystem *)
(* that holds the index of an earlier document (ConcSpec).  A step is one  *)
(* statement of the method; the locals of each call are in threads.        *)
(***************************************************************************)
\* the instance after process_pdf(path) with the defaults
Processed(path) ==
    process_pdf(NewPDFRAGSystem, path, DefaultChunkSize, DefaultChunkOverlap, DefaultK,
                Return(None)).sys

ConcInit ==
    /\ store = NoDatabase
    /\ db_initialized = FALSE
    /\ db_schema_cache = None
    /\ pdf_rag_initialized = FALSE
    /\ \E path \in {"A", "B"} :
          /\ pdf_rag_system = Some(Processed(path))
          /\ history = [indexed |-> {path}, processed |-> {path}]
    /\ web_search_system = None
    /\ TAVILY_API_KEY = FALSE
    /\ disk = None
    /\ last = Idle
    /\ split_input = NoSplit
    /\ split_output = None
    /\ threads = NoThreads

ConcFrame ==
    UNCHANGED <<store, db_initialized, db_schema_cache, pdf_rag_initialized, web_search_system,
                TAVILY_API_KEY, disk, last, history, split_input, split_output>>

\* process_pdf: load_pdf and split_documents; old is the instance as the call found it
ProcLoadAndSplit ==
    /\ threads.processor.pc = "idle"
    /\ \E path \in PdfPaths :
          LET documents == load_pdf(path) IN
          threads' = [threads EXCEPT !.processor =
              IF documents.kind = "raise"
              THEN [pc |-> "raised", path |-> path, old |-> Get(pdf_rag_system)]
              ELSE [pc |-> "split", path |-> path, old |-> Get(pdf_rag_system),
                    splits |-> split_documents(documents.value, DefaultChunkSize,
                                               DefaultChunkOverlap)]]
    /\ UNCHANGED pdf_rag_system
    /\ ConcFrame

\* process_pdf: self.create_vectorstore(splits)
ProcCreateVectorstore ==
    /\ threads.processor.pc = "split"
    /\ \E embed \in Outcomes({None}) :
          LET r == create_vectorstore(Get(pdf_rag_system), threads.processor.splits, embed) IN
          /\ pdf_rag_system' = Some(r.sys)
          /\ threads' = [threads EXCEPT !.processor.pc =
                            IF r.result.kind = "raise" THEN "raised" ELSE "created"]
    /\ ConcFrame

\* process_pdf: self.setup_retrieval_chain(k=k)
ProcSetupRetrievalChain ==
    /\ threads.processor.pc = "created"
    /\ LET r == setup_retrieval_chain(Get(pdf_rag_system), DefaultK) IN
          /\ pdf_rag_system' = Some(r.sys)
          /\ threads' = [threads EXCEPT !.processor.pc =
                            IF r.result.kind = "raise" THEN "raised" ELSE "returned"]
    /\ ConcFrame

\* process_pdf has returned or raised; the next call may start
ProcEnd ==
    /\ threads.processor.pc \in {"returned", "raised"}
    /\ threads' = [threads EXCEPT !.processor = [pc |-> "idle"]]
    /\ UNCHANGED pdf_rag_system
    /\ ConcFrame

\* query: if self.retrieval_chain is None: raise
ReaderCheck ==
    /\ threads.reader.pc = "idle"
    /\ threads' = [threads EXCEPT !.reader.pc =
                      IF Get(pdf_rag_system).retrieval_chain = None THEN "raised" ELSE "checked"]
    /\ UNCHANGED pdf_rag_system
    /\ ConcFrame

\* query: self.retrieval_chain.invoke(...).  held and processing record the
\* vectorstore of the instance and the position of process_pdf at that moment
ReaderInvoke ==
    /\ threads.reader.pc = "checked"
    /\ \E question \in Questions, chain \in Outcomes(AnswerModelTexts) :
          LET r == query(Get(pdf_rag_system), question, chain) IN
          threads' = [threads EXCEPT !.reader =
              [pc |-> IF r.result.kind = "raise" THEN "raised" ELSE "answered",
               retrieved |-> r.retrieved,
               held |-> Get(pdf_rag_system).vectorstore,
               processing |-> threads.processor]]
    /\ UNCHANGED pdf_rag_system
    /\ ConcFrame

\* query has returned or raised; the next call may start
ReaderEnd ==
    /\ threads.reader.pc \in {"answered", "raised"}
    /\ threads' = [threads EXCEPT !.reader = [pc |-> "idle"]]
    /\ UNCHANGED pdf_rag_system
    /\ ConcFrame

ConcNext ==
    \/ ProcLoadAndSplit
    \/ ProcCreateVectorstore
    \/ ProcSetupRetrievalChain
    \/ ProcEnd
    \/ ReaderCheck
    \/ ReaderInvoke
    \/ ReaderEnd

ConcSpec == ConcInit /\ [][ConcNext]_vars


(***************************************************************************)
(* A WebSearchSystem used directly, for every construction (WebSpec).      *)
(***************************************************************************)
SearchProviders == {"tavily", "duckduckgo"}

\* the questions given to a WebSearchSystem
WebQuestions == Questions \cup {<<"flu", "symptoms">>}

\* the domains arguments medical_search is given: None, or a list
DomainsArgs == {None, Some(<<>>), Some(<<"who.int">>), Some(<<"who.int", "cdc.gov">>)}

WebInit ==
    /\ store = NoDatabase
    /\ db_initialized = FALSE
    /\ db_schema_cache = None
    /\ pdf_rag_initialized = FALSE
    /\ pdf_rag_system = None
    /\ TAVILY_API_KEY \in BOOLEAN
    /\ web_search_system \in
          {Some(create_web_search_system(TAVILY_API_KEY, p)) : p \in SearchProviders}
    /\ disk = None
    /\ last = Idle
    /\ history = NoHistory
    /\ split_input = NoSplit
    /\ split_output = None
    /\ threads = NoThreads

WebFrame ==
    UNCHANGED <<store, db_initialized, db_schema_cache, pdf_rag_initialized, pdf_rag_system,
                web_search_system, TAVILY_API_KEY, disk, history, split_input, split_output, threads>>

WebSearch ==
    \E question \in WebQuestions, max_results \in {1, DefaultMaxResults},
       tool \in ToolOutcomes(Get(web_search_system)) :
        LET r == search(Get(web_search_system), question, max_results, tool) IN
        /\ last' = [op |-> "search", query |-> question, max_results |-> max_results,
                    tool |-> tool, result |-> r.result, sent |-> r.sent]
        /\ WebFrame

WebMedicalSearch ==
    \E question \in WebQuestions, domains \in DomainsArgs,
       tool \in ToolOutcomes(Get(web_search_system)) :
        LET r == medical_search(Get(web_search_system), question, domains, tool) IN
        /\ last' = [op |-> "medical_search", query |-> question, domains |-> domains,
                    tool |-> tool, result |-> r.result, sent |-> r.sent]
        /\ WebFrame

WebSearchAndAnswer ==
    \E question \in WebQuestions, llm \in Outcomes(AnswerModelTexts),
       tool \in ToolOutcomes(Get(web_search_system)) :
        LET r == search_and_answer(Get(web_search_system), question, tool, llm) IN
        /\ last' = [op |-> "search_and_answer", query |-> question, tool |-> tool,
                    result |-> r.result, sent |-> r.sent, calls |-> r.calls]
        /\ WebFrame

WebNext == WebSearch \/ WebMedicalSearch \/ WebSearchAndAnswer

WebSpec == WebInit /\ [][WebNext]_vars

(***************************************************************************)
(* split_documents on every short document (SplitSpec).                    *)
(***************************************************************************)
Chars == {"a", " ", "\n"}

Texts == UNION {[1..n -> Chars] : n \in 0..MaxLen}

Page(text, i) == [source |-> "doc", page |-> i, text |-> text]

\* a text as one page, or cut into two pages
Documents ==
    {<<Page(t, 0)>> : t \in Texts}
    \cup UNION {{<<Page(SubSeq(t, 1, c), 0), Page(SubSeq(t, c + 1, Len(t)), 1)>> :
                    c \in 1..(Len(t) - 1)} : t \in Texts}

SplitInit ==
    /\ store = NoDatabase
    /\ db_initialized = FALSE
    /\ db_schema_cache = None
    /\ pdf_rag_initialized = FALSE
    /\ pdf_rag_system = None
    /\ web_search_system = None
    /\ TAVILY_API_KEY = FALSE
    /\ disk = None
    /\ last = Idle
    /\ history = NoHistory
    /\ split_input \in {[documents |-> d, chunk_size |-> cs, chunk_overlap |-> co] :
                          d \in Documents, cs \in 1..MaxChunk, co \in 0..(MaxChunk - 1)}
    /\ split_input.chunk_overlap < split_input.chunk_size
    /\ split_output = None
    /\ threads = NoThreads

SplitDocuments ==
    /\ split_output = None
    /\ split_output' = Some(split_documents(split_input.documents, split_input.chunk_size,
                                            split_input.chunk_overlap))
    /\ UNCHANGED <<store, db_initialized, db_schema_cache, pdf_rag_initialized, pdf_rag_system,
                   web_search_system, TAVILY_API_KEY, disk, last, history, split_input, threads>>

SplitNext == SplitDocuments

SplitSpec == SplitInit /\ [][SplitNext]_vars


(***************************************************************************)
(* Properties of the handlers (Spec).                                      *)
(***************************************************************************)
ChatRan == last.op = "chat"

CallsMade == {last.calls[i] : i \in DOMAIN last.calls}

\* C1: in every mode, whatever the language model, the store, the retriever or the
\* search provider does (raise or return a failure value), the handler returns a
\* string to the chat input and no exception leaves it
HandlersReturnString ==
    ChatRan => /\ last.result.kind = "return"
               /\ last.result.value.type = "str"

\* a request of each kind whose backend raised, answered by the handler's except clause
HandlerCaughtFailure ==
    /\ ChatRan
    /\ last.handler = "handle_sql_query"
    /\ last.result.kind = "return"
    /\ last.result.value.text # <<>>
    /\ last.result.value.text[1] = "Error processing SQL query: "

\* C2: while no PDF has been processed successfully in the session, also after failed
\* attempts, handle_pdf_query returns the message asking for a PDF and
\* PDFRAGSystem.query is not called
NoIndexNoRetrieval ==
    (ChatRan /\ last.handler = "handle_pdf_query" /\ last.pre.processed = {})
        => /\ last.result = Return(Str(MsgNoPdf))
           /\ "PDFRAGSystem.query" \notin CallsMade

\* a document request after a processing attempt that failed
DocumentRequestAfterFailedAttempt ==
    /\ ChatRan
    /\ last.handler = "handle_pdf_query"
    /\ last.pre.processed = {}
    /\ pdf_rag_system # None
    /\ last.result = Return(Str(MsgNoPdf))

EmptyResultSet(executed) ==
    /\ executed # None
    /\ Get(executed).type = "DataFrame"
    /\ Get(executed).rows = 0

\* C3: when query_database returns a well-formed, empty result set, handle_sql_query
\* answers that no matching records were found and generate_natural_response is
\* not invoked
EmptyResultNotSynthesized ==
    (ChatRan /\ last.handler = "handle_sql_query" /\ EmptyResultSet(last.executed))
        => /\ last.result = Return(Str(MsgNoRecords))
           /\ CallsMade \cap {"generate_natural_response", "llm:response_prompt"} = {}

\* a request whose statement ran on an existing table and selected no row
EmptyResultAnswered ==
    /\ ChatRan
    /\ last.handler = "handle_sql_query"
    /\ EmptyResultSet(last.executed)
    /\ "query_database" \in CallsMade
    /\ last.result.value.text = MsgNoRecords

\* the store rejects a statement: it names a table that does not exist, or it is
\* not a statement at all
StoreRejects(db, sql) ==
    \/ /\ IsSelect(sql) \/ IsDrop(sql)
       /\ sql[2] \notin TableNames \/ db[sql[2]] = Absent
    \/ /\ ~IsSelect(sql)
       /\ ~IsDrop(sql)
       /\ sql # <<>>

\* C4: when the store rejects the generated query, query_database returns an error
\* value that is not an empty result set, and handle_sql_query returns an answer
\* that reports a query execution error and carries the non-empty cause; the answer
\* is not the no-matching-records answer and no exception reaches the caller
RejectedQueryReported ==
    (/\ ChatRan
     /\ last.handler = "handle_sql_query"
     /\ last.sql # None
     /\ StoreRejects(last.pre.store, Get(last.sql)))
        => /\ last.executed # None
           /\ Get(last.executed).type = "str"
           /\ Get(last.executed).text # <<>>
           /\ last.result.kind = "return"
           /\ last.result.value.text = <<"Query execution error: ">> \o Get(last.executed).text
           /\ last.result.value.text # MsgNoRecords

\* a request whose statement names a table the store does not have
MissingTableReported ==
    /\ ChatRan
    /\ last.handler = "handle_sql_query"
    /\ last.sql = Some(SelectAll("visits"))
    /\ last.result.value.text[1] = "Query execution error: "
    /\ \E i \in DOMAIN last.result.value.text : last.result.value.text[i] = "no such table: "

\* the handler the chat input calls for each mode
HandlerOfMode ==
    [m \in QueryModes |->
        CASE m = "SQL Database"  -> "handle_sql_query"
          [] m = "PDF Documents" -> "handle_pdf_query"
          [] m = "Web Search"    -> "handle_web_search(medical_only=False)"
          [] OTHER               -> "handle_web_search(medical_only=True)"]

\* the entry points of the three backends
BackendCalls ==
    [store     |-> {"get_database_schema", "query_database"},
     retriever |-> {"PDFRAGSystem.query"},
     provider  |-> {"WebSearchSystem.search_and_answer", "WebSearchSystem.search",
                    "WebSearchSystem.medical_search", "search_tool.invoke"}]

BackendOfMode ==
    [m \in QueryModes |->
        CASE m = "SQL Database"  -> "store"
          [] m = "PDF Documents" -> "retriever"
          [] OTHER               -> "provider"]

\* C7: each request goes to exactly one handler, the one of the selected mode, and
\* when that backend fails or is not ready no other backend is invoked
DispatchByModeOnly ==
    ChatRan =>
        /\ last.handler = HandlerOfMode[last.mode]
        /\ \A b \in DOMAIN BackendCalls :
              b # BackendOfMode[last.mode] => CallsMade \cap BackendCalls[b] = {}

\* a request in document mode with no index: nothing else is tried
NotReadyNoFallback ==
    /\ ChatRan
    /\ last.mode = "PDF Documents"
    /\ last.pre.pdf_rag_initialized = FALSE
    /\ last.calls = <<>>
    /\ last.handler = "handle_pdf_query"


(***************************************************************************)
(* Properties of WebSearchSystem (WebSpec).                                *)
(***************************************************************************)
\* the trusted domains of a medical_search call
TrustedDomains == IF last.domains = None THEN DefaultDomains ELSE Get(last.domains)

\* C5: when medical_search runs on a provider without native domain filtering, the
\* query text sent to the provider is the question, then for every trusted domain d
\* the qualifier site:d, the qualifiers joined by OR
SiteQualifiersSent ==
    (last.op = "medical_search"
     /\ Get(web_search_system).search_tool = "DuckDuckGoSearchRun")
        => LET q == last.sent[1].query
               n == Len(last.query)
               d == TrustedDomains
           IN /\ Len(last.sent) = 1
              /\ Len(q) = n + 1 + (IF d = <<>> THEN 0 ELSE 3 * Len(d) - 1)
              /\ SubSeq(q, 1, n) = last.query
              /\ q[n + 1] = " "
              /\ \A i \in DOMAIN d :
                    /\ q[n + 3 * i - 1] = "site:"
                    /\ q[n + 3 * i] = d[i]
              /\ \A i \in 1..(Len(d) - 1) : q[n + 3 * i + 1] = " OR "

\* medical_search with the default domains on an instance configured for the
\* structured provider without a key
DefaultDomainsQualified ==
    /\ last.op = "medical_search"
    /\ Get(web_search_system).search_tool = "DuckDuckGoSearchRun"
    /\ Get(web_search_system).search_provider = "tavily"
    /\ last.domains = None
    /\ Len(last.sent[1].query) = Len(last.query) + 3 * Len(DefaultDomains)

\* C6: for every provider configuration, when the provider raises during search or
\* medical_search the method returns one diagnostic text describing the failure
\* and does not raise
ProviderFailureReported ==
    (last.op \in {"search", "medical_search"} /\ last.tool.kind = "raise")
        => /\ last.result.kind = "return"
           /\ last.result.value.type = "str"
           /\ \E prefix \in {"Search error: ", "Medical search error: "} :
                 last.result.value.text = <<prefix, last.tool.exc>>

\* the provider raised in medical_search's filtered branch
FilteredSearchFailed ==
    /\ last.op = "medical_search"
    /\ last.tool.kind = "raise"
    /\ last.result.kind = "return"
    /\ last.result.value.text[1] = "Medical search error: "


(***************************************************************************)
(* Properties of PDFRAGSystem (RagSpec).                                   *)
(***************************************************************************)
NotInitializedMessage ==
    [query |-> MsgChainNotInit,
     setup_retrieval_chain |-> MsgVectorstoreNotInit,
     save_vectorstore |-> MsgSaveNotInit]

\* C8: on an instance on which no document has been indexed (its vectorstore has
\* never held an index), query, setup_retrieval_chain and save_vectorstore each
\* fail with their not-initialized error and change no state
NotInitializedFails ==
    (last.op \in DOMAIN NotInitializedMessage /\ last.pre.history.indexed = {})
        => /\ last.result.kind = "raise"
           /\ last.result.exc = NotInitializedMessage[last.op]
           /\ pdf_rag_system = Some(last.pre.system)
           /\ disk = last.pre.disk

\* save_vectorstore on an instance with nothing indexed, an older index being on disk
SaveBeforeIndexing ==
    /\ last.op = "save_vectorstore"
    /\ last.pre.history.indexed = {}
    /\ last.pre.disk = Some(OldIndex)
    /\ disk = Some(OldIndex)

\* the index the retrieval chain of the instance searches
SearchedIndex == Get(Get(pdf_rag_system).retrieval_chain).retriever

\* C9: reprocessing replaces: after a successful process_pdf(B) on an instance that
\* processed A before, the index that queries search is built from the passages of
\* B only and holds no passage of A
ReprocessingReplaces ==
    (last.op = "process_pdf" /\ last.ok)
        => /\ Get(pdf_rag_system).retrieval_chain # None
           /\ SearchedIndex.passages # <<>>
           /\ \A i \in DOMAIN SearchedIndex.passages :
                 /\ SearchedIndex.passages[i].source = last.path
                 /\ SearchedIndex.passages[i].source \notin last.pre.history.processed \ {last.path}

\* process_pdf("B") succeeded on an instance whose index held the passages of "A"
SecondDocumentProcessed ==
    /\ last.op = "process_pdf"
    /\ last.ok
    /\ last.path = "B"
    /\ "A" \in last.pre.history.processed
    /\ last.pre.system.vectorstore # None
    /\ Sources(Get(last.pre.system.vectorstore)) = {"A"}


(***************************************************************************)
(* Properties of split_documents (SplitSpec).                              *)
(***************************************************************************)
Passages == Get(split_output)

\* the characters of the source that two passages share
Overlap(p, q) ==
    IF p.source = q.source /\ p.page = q.page /\ p.span.e >= q.span.s
    THEN Min(p.span.e, q.span.e) - q.span.s + 1
    ELSE 0

WithinChunkSize ==
    \A i \in DOMAIN Passages : Len(Passages[i].text) <= split_input.chunk_size

\* C10 as stated: no passage exceeds chunk_size, and consecutive passages overlap
\* by exactly chunk_overlap characters, except possibly where the final passage
\* is one of the two
ExactOverlap ==
    split_output # None =>
        /\ WithinChunkSize
        /\ \A i \in 1..(Len(Passages) - 2) :
              Overlap(Passages[i], Passages[i + 1]) = split_input.chunk_overlap

\* C10, amended: no passage exceeds chunk_size, and consecutive passages share at
\* most chunk_overlap characters of the source (none when they come from
\* different pages)
BoundedOverlap ==
    split_output # None =>
        /\ WithinChunkSize
        /\ \A i \in 1..(Len(Passages) - 1) :
              /\ Overlap(Passages[i], Passages[i + 1]) <= split_input.chunk_overlap
              /\ Passages[i].page # Passages[i + 1].page
                    => Overlap(Passages[i], Passages[i + 1]) = 0

\* a page cut into three passages or more, two of them sharing chunk_overlap characters
OverlappingPassages ==
    /\ split_output # None
    /\ Len(Passages) >= 3
    /\ split_input.chunk_overlap > 0
    /\ \E i \in 1..(Len(Passages) - 1) :
          Overlap(Passages[i], Passages[i + 1]) = split_input.chunk_overlap

(***************************************************************************)
(* Properties of one request's stages (Spec).                              *)
(***************************************************************************)
\* the calls that gather evidence, and the calls that synthesize the answer
GatheringCalls ==
    {"get_database_schema", "generate_sql_query", "llm:sql_prompt", "query_database",
     "WebSearchSystem.search", "WebSearchSystem.medical_search", "search_tool.invoke"}

SynthesisCalls ==
    {"generate_natural_response", "llm:response_prompt", "llm:web.response_prompt"}

SynthesisCalled == CallsMade \cap SynthesisCalls # {}

\* C11: within one request the stages run in the order gather evidence, synthesize:
\* the synthesis model is invoked only after evidence gathering has returned (for a
\* structured request: returned rows), and when evidence gathering raises the
\* request ends in the failed outcome with no synthesis call
StagesInOrder ==
    ChatRan =>
        /\ \A i \in DOMAIN last.calls :
              last.calls[i] \in SynthesisCalls
                 => /\ \E j \in 1..(i - 1) : last.calls[j] \in GatheringCalls
                    /\ \A j \in (i + 1)..Len(last.calls) : last.calls[j] \notin GatheringCalls
        /\ last.handler = "handle_sql_query"
              => /\ SynthesisCalled
                    => last.executed # None /\ Get(last.executed).type = "DataFrame"
                 /\ last.executed = None
                    => /\ ~SynthesisCalled
                       /\ last.result.kind = "return"
                       /\ last.result.value.text[1] = "Error processing SQL query: "

\* a structured request whose translation raised: it ends failed after the model call
TranslationRaised ==
    /\ ChatRan
    /\ last.handler = "handle_sql_query"
    /\ last.executed = None
    /\ last.calls[Len(last.calls)] = "llm:sql_prompt"
    /\ last.result.value.text[1] = "Error processing SQL query: "

\* how many times a request made one of the calls of a set
TimesCalled(names) == Cardinality({i \in DOMAIN last.calls : last.calls[i] \in names})

\* C12: there is no retry or refinement loop: in one request the translation, the
\* execution and the synthesis are each invoked at most once, whatever the model
\* returns and whether or not the execution fails
NoRetry ==
    ChatRan =>
        /\ TimesCalled({"generate_sql_query"}) <= 1
        /\ TimesCalled({"llm:sql_prompt"}) <= 1
        /\ TimesCalled({"query_database"}) <= 1
        /\ TimesCalled({"search_tool.invoke"}) <= 1
        /\ TimesCalled({"PDFRAGSystem.query"}) <= 1
        /\ TimesCalled(SynthesisCalls \ {"generate_natural_response"}) <= 1
        /\ TimesCalled({"generate_natural_response"}) <= 1

\* the model returned a text that is no statement, the store rejected it, and the
\* request ended after that one execution
MalformedQueryNotRetried ==
    /\ ChatRan
    /\ last.handler = "handle_sql_query"
    /\ last.sql = Some(<<"I", "cannot", "answer">>)
    /\ TimesCalled({"generate_sql_query"}) = 1
    /\ TimesCalled({"query_database"}) = 1
    /\ last.calls[Len(last.calls)] = "query_database"

(***************************************************************************)
(* Properties of the schema cache (Spec).                                  *)
(***************************************************************************)
SqlRequestRan == ChatRan /\ last.handler = "handle_sql_query"

\* C13: handle_sql_query runs get_database_schema only when the session's schema
\* cache is empty; a filled cache is never cleared and is replaced only by the
\* Initialize/Reset Database button, so later structured requests use the cached
\* schema without computing it again
SchemaCacheKept ==
    [][/\ SqlRequestRan'
          => /\ "get_database_schema" \in CallsMade' <=> db_schema_cache = None
             /\ db_schema_cache # None => db_schema_cache' = db_schema_cache
       /\ db_schema_cache # None
          => /\ db_schema_cache' # None
             /\ db_schema_cache' # db_schema_cache => last'.op = "init_database"]_vars

\* a structured request that found the cache filled and went straight to translation
CachedSchemaReused ==
    /\ SqlRequestRan
    /\ last.pre.db_schema_cache # None
    /\ db_schema_cache = last.pre.db_schema_cache
    /\ last.calls[1] = "generate_sql_query"

(***************************************************************************)
(* Properties of the generated query (Spec).                               *)
(***************************************************************************)
\* C14: for every text the model returns, the query that generate_sql_query returns
\* contains no code-fence marker (no run of three backticks)
NoFenceInQuery ==
    (SqlRequestRan /\ last.sql # None)
        => \A i \in DOMAIN Get(last.sql) : Get(last.sql)[i] # Fence

(***************************************************************************)
(* Properties of a query running during process_pdf (ConcSpec).            *)
(***************************************************************************)
\* the complete index of a document: all the passages of the file
CompleteIndex(path) ==
    Index(split_documents(load_pdf(path).value, DefaultChunkSize, DefaultChunkOverlap))

\* the index a finished query retrieved from
RetrievedFrom == Get(threads.reader.retrieved)

\* C15: when a query runs concurrently with process_pdf on the same PDFRAGSystem,
\* under every interleaving the query is answered entirely from the previous complete
\* index or entirely from the new complete index, never from a half-rebuilt one
QueryNeverSeesPartialIndex ==
    threads.reader.pc = "answered" =>
        /\ \E path \in DOMAIN PdfPages : RetrievedFrom = CompleteIndex(path)
        /\ \/ Some(RetrievedFrom) = threads.reader.held
           \/ /\ threads.reader.processing.pc # "idle"
              /\ Some(RetrievedFrom) = threads.reader.processing.old.vectorstore

\* a query answered between the two assignments of process_pdf: the instance holds
\* the new index, the answer comes from the previous one
AnsweredBetweenAssignments ==
    /\ threads.reader.pc = "answered"
    /\ threads.reader.processing.pc = "created"
    /\ Some(RetrievedFrom) = threads.reader.processing.old.vectorstore
    /\ Some(RetrievedFrom) # threads.reader.held

(***************************************************************************)
(* Properties of the store under structured requests (Spec).               *)
(***************************************************************************)
\* C16: handling a structured query is read-only: for every query text the
\* translator can produce, handle_sql_query leaves the tables and rows of the
\* store unchanged
StructuredQueryReadOnly ==
    SqlRequestRan => store = last.pre.store

(***************************************************************************)
(* Properties of the web answer (Spec).                                    *)
(***************************************************************************)
WebRequestRan ==
    /\ ChatRan
    /\ last.handler \in {"handle_web_search(medical_only=False)",
                         "handle_web_search(medical_only=True)"}

\* C17: for every web request, restricted to the trusted domains or not, the answer
\* is synthesized with the web-evidence prompt (WebSearchSystem.response_prompt, the
\* one that asks for medical disclaimers and for acknowledging insufficient results)
WebPromptUsed ==
    (WebRequestRan /\ SynthesisCalled)
        => CallsMade \cap SynthesisCalls = {"llm:web.response_prompt"}

(***************************************************************************)
(* Properties of the provider branches (WebSpec).                          *)
(***************************************************************************)
\* C18: for every construction of WebSearchSystem the result-handling branch that
\* search and medical_search take (structured results, reached with a dict request,
\* or plain text) matches the search tool built in __init__
BranchMatchesTool ==
    last.op \in {"search", "medical_search"}
        => (last.sent[1].form = "dict"
               <=> Get(web_search_system).search_tool = "TavilySearchResults")

(***************************************************************************)
(* Properties of the retrieval chain (RagSpec).                            *)
(***************************************************************************)
\* C19: after any sequence of create_vectorstore, process_pdf, load_vectorstore and
\* setup_retrieval_chain calls, whenever retrieval_chain is set, query retrieves from
\* the index currently held in vectorstore
ChainFollowsVectorstore ==
    (last.op = "query" /\ last.pre.system.retrieval_chain # None)
        => last.retrieved = last.pre.system.vectorstore

(***************************************************************************)
(* Properties of the document flag (Spec).                                 *)
(***************************************************************************)
\* the PDF system the Process PDF button works on
SystemBefore ==
    IF last.pre.pdf_rag_system = None THEN NewPDFRAGSystem ELSE Get(last.pre.pdf_rag_system)

\* C20: in every session state, after any successful and failed processing
\* attempts, pdf_rag_initialized = True implies that pdf_rag_system is set and its
\* retrieval_chain is set; a failed attempt leaves the flag and the index built
\* before unchanged
FlagImpliesChain ==
    /\ pdf_rag_initialized
          => /\ pdf_rag_system # None
             /\ Get(pdf_rag_system).retrieval_chain # None
    /\ (last.op = "process_pdf_button" /\ ~last.ok)
          => /\ pdf_rag_initialized = last.pre.pdf_rag_initialized
             /\ pdf_rag_system = Some(SystemBefore)

\* a failed attempt in a session that had processed a document before
FailedAttemptAfterSuccess ==
    /\ last.op = "process_pdf_button"
    /\ ~last.ok
    /\ last.pre.pdf_rag_initialized
    /\ pdf_rag_initialized
    /\ Get(pdf_rag_system).vectorstore # None

(***************************************************************************)
(* Properties of create_patient_database (Spec).                           *)
(***************************************************************************)
\* the last operation was a call of create_patient_database
DatabaseCallRan == last.op = "init_database"

\* the call was made when patient rows already existed
PatientRowsExisted == last.pre.store["patients"] > 0

\* C21: create_patient_database is idempotent over sequential calls: after any
\* number of calls the patients table holds exactly the 20 seed patients, and every
\* call made when patient rows already exist returns the "already exists" message
\* and leaves all three tables unchanged
CreateIsIdempotent ==
    DatabaseCallRan =>
        /\ store["patients"] = NumSeedPatients
        /\ PatientRowsExisted
              => /\ last.result = Return(Str(MsgAlreadyExists))
                 /\ store = last.pre.store

====
